---- MODULE Spec2Model ----
(***************************************************************************)
(* zvelf: hardening report for 64-bit x86-64 ELF files (src/main.rs).      *)
(*                                                                         *)
(* Two specifications share the definitions below.                         *)
(*   Spec      check_hardening on one parsed ELF file, one loop iteration  *)
(*             of "for sect in elf_file.section_iter()" per step.          *)
(*   SpecMain  main: the arguments, the directory walk and the per-file    *)
(*             closure, with check_hardening applied as a whole.           *)
(*                                                                         *)
(* A name (&str) is a sequence of one-character strings, so that           *)
(* ends_with, contains and split are computed on the characters.           *)
(***************************************************************************)
EXTENDS Integers, Sequences, FiniteSets, TLC

\* ---------------------------------------------------------------- bounds
\* sections of one ELF file
MaxSections == 2
\* program headers plus table entries (dynamic entries, symbols) of one file
MaxEntries == 2
\* path arguments on the command line
MaxArgs == 2
\* directory entries the walk yields under one argument
MaxWalk == 2

\* ------------------------------------------------------- program constants
\* xmas_elf::dynamic::FLAG_1_NOW and FLAG_1_PIE (DF_1_NOW, DF_1_PIE)
FLAG_1_NOW == 1
FLAG_1_PIE == 134217728
\* exit status of process::exit(1), of a normal return and of a panic
EXIT_USAGE == 1
EXIT_OK == 0
EXIT_PANIC == 101

\* ------------------------------------------------------------------ names
STACK_CHK_FAIL == <<"_", "_", "s", "t", "a", "c", "k", "_", "c", "h", "k", "_", "f", "a", "i", "l">>
CHK == <<"_", "c", "h", "k">>
TRIPLE == <<"_", "_", "_">>
VERSEP == <<"@", "@">>
N_printf_chk == <<"_", "_", "p", "r", "i", "n", "t", "f", "_", "c", "h", "k">>
N_memcpy_chk == <<"_", "_", "m", "e", "m", "c", "p", "y", "_", "c", "h", "k">>
N_foo_chk == <<"f", "o", "o", "_", "c", "h", "k">>
N_versioned == <<"f", "o", "o", "_", "c", "h", "k", "@", "@", "V">>
N_verchk == <<"a", "@", "@", "b", "_", "c", "h", "k">>
N_alias == <<"a", "_", "_", "_", "b", "_", "c", "h", "k">>
N_twice == <<"x", "_", "c", "h", "k", "@", "@", "y", "@", "@", "z">>

\* ------------------------------------------------------- string operations
\* str::ends_with
EndsWith(s, suf) ==
    /\ Len(s) >= Len(suf)
    /\ SubSeq(s, Len(s) - Len(suf) + 1, Len(s)) = suf

\* the start positions of the occurrences of pat in s
Occurrences(s, pat) ==
    {i \in 1..(Len(s) - Len(pat) + 1) : SubSeq(s, i, i + Len(pat) - 1) = pat}

\* str::contains
Contains(s, pat) == Occurrences(s, pat) # {}

Min(S) == CHOOSE x \in S : \A y \in S : x <= y

\* s.split(pat).next(): the piece before the first occurrence of pat, the
\* whole of s when pat does not occur.  It is always Some.
SplitFirst(s, pat) ==
    IF Occurrences(s, pat) = {} THEN s
    ELSE SubSeq(s, 1, Min(Occurrences(s, pat)) - 1)

\* ------------------------------------------------------- the ELF view
\* e.get_name(&elf_file): Ok(name) or Err
SymOk(n) == [ok |-> TRUE, name |-> n]
SymErr == [ok |-> FALSE, name |-> <<>>]

\* d.get_tag(): Ok(tag) or Err;  d.get_val(): the entry's value
Dyn(t, v) == [tag |-> t, val |-> v]

\* sect.get_data(&elf_file): Dynamic64, DynSymbolTable64, SymbolTable64, or
\* anything else (another variant, or Err)
Section(k, es) == [kind |-> k, ents |-> es]
OtherSection == Section("Other", <<>>)

\* f & flag on u64
RECURSIVE BitAnd(_, _)
BitAnd(a, b) ==
    IF a = 0 \/ b = 0 THEN 0
    ELSE (a % 2) * (b % 2) + 2 * BitAnd(a \div 2, b \div 2)

\* f & flag != 0x0
HasFlag(f, flag) == BitAnd(f, flag) # 0

\* ds.iter().any(|d| tag == Flags1 && val & flag != 0)
AnyFlags1(ds, flag) ==
    \E i \in 1..Len(ds) :
        /\ ds[i].tag # "Err"
        /\ ds[i].tag = "Flags1"
        /\ HasFlag(ds[i].val, flag)

\* ds.iter().any(|d| tag == TextRel)
AnyTextRel(ds) ==
    \E i \in 1..Len(ds) : ds[i].tag # "Err" /\ ds[i].tag = "TextRel"

\* st.iter().any(|e| name == "__stack_chk_fail")
AnyStackChkFail(st) ==
    \E i \in 1..Len(st) : st[i].ok /\ st[i].name = STACK_CHK_FAIL

\* elf_file.program_iter().any(|ph| ph.get_type() == Ok(GnuRelro))
InitialRelro_NoMarker(phs) == "None"
InitialRelro(phs) ==
    IF \E i \in 1..Len(phs) : phs[i] = "GnuRelro" THEN "Partial" ELSE "None"

\* ----------------------------------------- the loop body of check_hardening
RelroStep_Overwrite(r, sect) ==
    IF sect.kind = "Dynamic64"
    THEN IF AnyFlags1(sect.ents, FLAG_1_NOW) THEN "Full" ELSE "Partial"
    ELSE r
RelroStep(r, sect) ==
    IF sect.kind = "Dynamic64"
    THEN IF AnyFlags1(sect.ents, FLAG_1_NOW) THEN "Full" ELSE r
    ELSE r

PieStep(p, sect) ==
    IF sect.kind = "Dynamic64" THEN AnyFlags1(sect.ents, FLAG_1_PIE) ELSE p

PicStep(p, sect) ==
    IF sect.kind = "Dynamic64" THEN ~AnyTextRel(sect.ents) ELSE p

CanaryStep(c, sect) ==
    IF sect.kind = "DynSymbolTable64" THEN AnyStackChkFail(sect.ents) ELSE c

\* the four locals
Locals(r, c, pe, pc_) == [relro |-> r, stack_canary |-> c, pie |-> pe, pic |-> pc_]

InitLocals(elf_file) == Locals(InitialRelro(elf_file.phs), FALSE, FALSE, TRUE)

SectStep(l, sect) ==
    Locals(RelroStep(l.relro, sect), CanaryStep(l.stack_canary, sect),
           PieStep(l.pie, sect), PicStep(l.pic, sect))

\* check_hardening's loop, lines 78-134, over the sections sects[from..]
RECURSIVE FoldSections(_, _)
FoldSections(l, sects) ==
    IF sects = <<>> THEN l ELSE FoldSections(SectStep(l, Head(sects)), Tail(sects))

\* ------------------------------------------------------------ fortify_fns
\* the names of the entries whose get_name is Ok: filter_map(.. .ok())
RECURSIVE OkNames(_)
OkNames(st) ==
    IF st = <<>> THEN <<>>
    ELSE (IF Head(st).ok THEN <<Head(st).name>> ELSE <<>>) \o OkNames(Tail(st))

\* and_then(|s| s.split("@@").next()) on each name
StripVersion_Last(n) ==
    IF Occurrences(n, VERSEP) = {} THEN n
    ELSE SubSeq(n, 1, (CHOOSE i \in Occurrences(n, VERSEP) :
                          \A j \in Occurrences(n, VERSEP) : j <= i) - 1)
StripVersion(n) == SplitFirst(n, VERSEP)

MapStrip(ns) == [i \in 1..Len(ns) |-> StripVersion(ns[i])]

\* the closure of flat_map: what one section contributes
SectionNames(sect) ==
    IF sect.kind = "DynSymbolTable64" THEN OkNames(sect.ents)
    ELSE IF sect.kind = "SymbolTable64" THEN MapStrip(OkNames(sect.ents))
    ELSE <<>>

RECURSIVE FlatMapNames(_)
FlatMapNames(sects) ==
    IF sects = <<>> THEN <<>>
    ELSE SectionNames(Head(sects)) \o FlatMapNames(Tail(sects))

EndsWithChk(f) == EndsWith(f, CHK)
NoTriple(f) == ~Contains(f, TRIPLE)

fortify_fns(elf) ==
    SelectSeq(SelectSeq(FlatMapNames(elf.sects), EndsWithChk), NoTriple)

\* ------------------------------------------------------------ the report
Line(l, v) == [label |-> l, val |-> v]
FmtBool(b) == IF b THEN "true" ELSE "false"

\* the six println! of check_hardening
ReportLines(l, fns) ==
    << Line("RELRO", l.relro),
       Line("STACK_CANARY", FmtBool(l.stack_canary)),
       Line("PIE", FmtBool(l.pie)),
       Line("PIC", FmtBool(l.pic)),
       Line("FORTIFY", FmtBool(fns # <<>>)),
       Line("CHECKED FUNCTIONS", ToString(Len(fns))) >>

\* check_hardening as a whole: what it prints for elf
check_hardening(elf) ==
    ReportLines(FoldSections(InitLocals(elf), elf.sects), fortify_fns(elf))

\* ----------------------------------------------------------------- inputs
\* program header types (anything but GnuRelro behaves as Load)
PhTypes == {"Load", "GnuRelro"}

\* dynamic entries: flags-1 with bind-now, with PIE, with both, with neither
\* (8 is DF_1_NODELETE);
\* a text-relocation entry whose value has both bits; a tag get_tag rejects
DynPool ==
    { Dyn("Flags1", FLAG_1_NOW), Dyn("Flags1", FLAG_1_PIE),
      Dyn("Flags1", FLAG_1_NOW + FLAG_1_PIE), Dyn("Flags1", 8),
      Dyn("TextRel", FLAG_1_NOW + FLAG_1_PIE), Dyn("Err", FLAG_1_NOW) }

\* symbols of either symbol table
SymPool ==
    { SymOk(STACK_CHK_FAIL), SymOk(N_foo_chk), SymOk(N_versioned),
      SymOk(N_verchk), SymOk(N_alias), SymOk(N_twice), SymErr }

SeqsOfLen(S, n) == [1..n -> S]
SeqsUpTo(S, n) == UNION {SeqsOfLen(S, k) : k \in 0..n}

\* the sections holding at most m entries
SectionsUpTo(m) ==
    {OtherSection}
      \cup {Section("Dynamic64", es) : es \in SeqsUpTo(DynPool, m)}
      \cup {Section(kd, es) : kd \in {"DynSymbolTable64", "SymbolTable64"},
                              es \in SeqsUpTo(SymPool, m)}

Elf(phs, sects) == [phs |-> phs, sects |-> sects]

\* f is an ELF view: phs then at most n more sections after sects, holding at
\* most m more entries
RECURSIVE IsElfFrom(_, _, _, _, _)
IsElfFrom(f, phs, sects, n, m) ==
    \/ f = Elf(phs, sects)
    \/ /\ n > 0
       /\ \E s \in SectionsUpTo(m) :
              IsElfFrom(f, phs, Append(sects, s), n - 1, m - Len(s.ents))

\* ------------------------------------------------------------------ state
VARIABLES
    elf_file,       \* check_hardening: the ELF view it is called with
    pc,             \* check_hardening: "idle", "loop" (lines 78-134), "done"
    idx,            \* the section the loop visits next
    relro, stack_canary, pie, pic,  \* the locals of lines 65-76
    checked_fns,    \* line 136
    out,            \* standard output, one element per line
    args,           \* main: per path argument, the entries its walk yields
    mpc,            \* main: "start", "walk", "exited"
    argi, walki,    \* the current argument and directory entry
    results,        \* per analysed file, the closure's Result
    status          \* the exit status: <<>> while running, <<code>> once ended

hvars == <<elf_file, pc, idx, relro, stack_canary, pie, pic, checked_fns>>
mvars == <<args, mpc, argi, walki, results, status>>
vars == <<elf_file, pc, idx, relro, stack_canary, pie, pic, checked_fns, out,
          args, mpc, argi, walki, results, status>>

\* ------------------------------------------------- Spec: check_hardening
\* lines 65-76: the locals before the loop
Init ==
    /\ \E phs \in SeqsUpTo(PhTypes, MaxEntries) :
           IsElfFrom(elf_file, phs, <<>>, MaxSections, MaxEntries - Len(phs))
    /\ pc = "loop"
    /\ idx = 1
    /\ relro = InitLocals(elf_file).relro
    /\ stack_canary = InitLocals(elf_file).stack_canary
    /\ pie = InitLocals(elf_file).pie
    /\ pic = InitLocals(elf_file).pic
    /\ checked_fns = <<>>
    /\ out = <<>>
    /\ args = <<>>
    /\ mpc = "call"
    /\ argi = 0
    /\ walki = 0
    /\ results = <<>>
    /\ status = <<>>

CurLocals == Locals(relro, stack_canary, pie, pic)

\* one iteration of the loop, lines 78-134
LoopSection ==
    /\ pc = "loop"
    /\ idx <= Len(elf_file.sects)
    /\ relro' = SectStep(CurLocals, elf_file.sects[idx]).relro
    /\ pie' = SectStep(CurLocals, elf_file.sects[idx]).pie
    /\ pic' = SectStep(CurLocals, elf_file.sects[idx]).pic
    /\ stack_canary' = SectStep(CurLocals, elf_file.sects[idx]).stack_canary
    /\ idx' = idx + 1
    /\ UNCHANGED <<elf_file, pc, checked_fns, out>>
    /\ UNCHANGED mvars

\* lines 136-143: the loop is over; fortify_fns and the six lines
Report ==
    /\ pc = "loop"
    /\ idx > Len(elf_file.sects)
    /\ checked_fns' = fortify_fns(elf_file)
    /\ out' = out \o ReportLines(CurLocals, fortify_fns(elf_file))
    /\ pc' = "done"
    /\ UNCHANGED <<elf_file, idx, relro, stack_canary, pie, pic>>
    /\ UNCHANGED mvars

Next == LoopSection \/ Report

Spec == Init /\ [][Next]_vars

\* ---------------------------------------------------------- SpecMain: main
\* What WalkDir yields: an Err (dropped by res.ok()), an entry that is no
\* regular file (dropped by is_file()), or a regular file.  A regular file
\* opens or not, reads or not, parses or not, and has a class and a machine.
WalkErr == [ft |-> "err"]
Directory == [ft |-> "dir"]
RegularFile(o, r, p, c, m, e) ==
    [ft |-> "file", open |-> o, read |-> r, parse |-> p, class |-> c,
     machine |-> m, elf |-> e]

\* a hardened binary and a bare one
HardenedElf ==
    Elf(<<"Load", "GnuRelro">>,
        << Section("Dynamic64", <<Dyn("Flags1", FLAG_1_NOW + FLAG_1_PIE)>>),
           Section("DynSymbolTable64",
                   <<SymOk(STACK_CHK_FAIL), SymOk(N_printf_chk), SymOk(N_memcpy_chk)>>) >>)
BareElf == Elf(<<"Load">>, <<OtherSection>>)
NoElf == Elf(<<>>, <<>>)

WalkEntries ==
    { WalkErr, Directory,
      RegularFile(FALSE, FALSE, FALSE, "None", "None", NoElf),
      RegularFile(TRUE, FALSE, FALSE, "None", "None", NoElf),
      RegularFile(TRUE, TRUE, FALSE, "None", "None", NoElf),
      RegularFile(TRUE, TRUE, TRUE, "ThirtyTwo", "X86", NoElf),
      RegularFile(TRUE, TRUE, TRUE, "SixtyFour", "AArch64", NoElf),
      RegularFile(TRUE, TRUE, TRUE, "SixtyFour", "X86_64", HardenedElf),
      RegularFile(TRUE, TRUE, TRUE, "SixtyFour", "X86_64", BareElf) }

\* the Err values of the closure: open_file's e.description(), ElfFile::new's
\* message, and the literal of lines 176 and 180
ErrOpen == "Err: os error description"
ErrParse == "Err: ElfFile::new message"
ErrClass == "Err: No support for non-64bit, yet."
ErrMachine == "Err: No support for non-64bit, yet."

\* the closure of lines 171-182 on one regular file: whether it panics
\* (read_to_end(..).unwrap(), line 34), the Result it returns and the lines
\* it prints after the path
Outcome(p, r, ls) == [panic |-> p, result |-> r, lines |-> ls]

analyse(f) ==
    IF ~f.open THEN Outcome(FALSE, ErrOpen, <<>>)
    ELSE IF ~f.read THEN Outcome(TRUE, "panic", <<>>)
    ELSE IF ~f.parse THEN Outcome(FALSE, ErrParse, <<>>)
    ELSE IF f.class # "SixtyFour" THEN Outcome(FALSE, ErrClass, <<>>)
    ELSE IF f.machine = "X86_64" THEN Outcome(FALSE, "Ok", check_hardening(f.elf))
    ELSE Outcome(FALSE, ErrMachine, <<>>)

PathName(a, w) == ToString(<<a, w>>)

InitMain ==
    /\ args \in SeqsUpTo(SeqsUpTo(WalkEntries, MaxWalk), MaxArgs)
    /\ mpc = "start"
    /\ argi = 1
    /\ walki = 1
    /\ results = <<>>
    /\ status = <<>>
    /\ out = <<>>
    /\ elf_file = NoElf
    /\ pc = "idle"
    /\ idx = 1
    /\ relro = "None"
    /\ stack_canary = FALSE
    /\ pie = FALSE
    /\ pic = TRUE
    /\ checked_fns = <<>>

\* lines 155-158: no path argument
Usage ==
    /\ mpc = "start"
    /\ Len(args) < 1
    /\ out' = Append(out, Line("usage", ""))
    /\ status' = <<EXIT_USAGE>>
    /\ mpc' = "exited"
    /\ UNCHANGED <<args, argi, walki, results>>
    /\ UNCHANGED hvars

\* lines 160-162: the next path argument
CheckingArg ==
    /\ mpc \in {"start", "args"}
    /\ Len(args) >= 1
    /\ argi <= Len(args)
    /\ out' = Append(out, Line("Checking", ToString(argi)))
    /\ results' = Append(results, <<>>)
    /\ walki' = 1
    /\ mpc' = "walk"
    /\ UNCHANGED <<args, argi, status>>
    /\ UNCHANGED hvars

\* lines 164-170: an entry the filter drops
SkipEntry ==
    /\ mpc = "walk"
    /\ walki <= Len(args[argi])
    /\ args[argi][walki].ft # "file"
    /\ walki' = walki + 1
    /\ UNCHANGED <<args, mpc, argi, results, status, out>>
    /\ UNCHANGED hvars

\* lines 171-182: the closure on a regular file
AnalyseFile ==
    /\ mpc = "walk"
    /\ walki <= Len(args[argi])
    /\ args[argi][walki].ft = "file"
    /\ LET o == analyse(args[argi][walki])
           printed == out \o <<Line("", ""), Line("path", PathName(argi, walki))>>
       IN  IF o.panic
           THEN /\ out' = printed
                /\ status' = <<EXIT_PANIC>>
                /\ mpc' = "exited"
                /\ UNCHANGED <<walki, results>>
           ELSE /\ out' = printed \o o.lines
                /\ results' = [results EXCEPT ![argi] = Append(@, o.result)]
                /\ walki' = walki + 1
                /\ UNCHANGED <<mpc, status>>
    /\ UNCHANGED <<args, argi>>
    /\ UNCHANGED hvars

\* lines 183-184: the walk is over
ArgDone ==
    /\ mpc = "walk"
    /\ walki > Len(args[argi])
    /\ out' = out \o <<Line("", ""), Line("", "")>>
    /\ argi' = argi + 1
    /\ mpc' = "args"
    /\ UNCHANGED <<args, walki, results, status>>
    /\ UNCHANGED hvars

\* line 186: main returns
Exit ==
    /\ mpc = "args"
    /\ argi > Len(args)
    /\ status' = <<EXIT_OK>>
    /\ mpc' = "exited"
    /\ UNCHANGED <<args, argi, walki, results, out>>
    /\ UNCHANGED hvars

NextMain == Usage \/ CheckingArg \/ SkipEntry \/ AnalyseFile \/ ArgDone \/ Exit

SpecMain == InitMain /\ [][NextMain]_vars

\* ================================================================ claims
\* ---- what the claims speak of, stated on the whole ELF view
IsDynamic(sect) == sect.kind = "Dynamic64"
IsDynSym(sect) == sect.kind = "DynSymbolTable64"
IsSymTab(sect) == sect.kind = "SymbolTable64"

\* the section has a flags-1 entry whose value has the bit
SectHasFlags1Bit(sect, bit) ==
    /\ IsDynamic(sect)
    /\ \E j \in DOMAIN sect.ents :
          sect.ents[j].tag = "Flags1" /\ BitAnd(sect.ents[j].val, bit) = bit

SectHasTextRel(sect) ==
    IsDynamic(sect) /\ \E j \in DOMAIN sect.ents : sect.ents[j].tag = "TextRel"

SectHasCanary(sect) ==
    /\ IsDynSym(sect)
    /\ \E j \in DOMAIN sect.ents :
          sect.ents[j].ok /\ sect.ents[j].name = STACK_CHK_FAIL

MarkerPresent(elf) == \E i \in DOMAIN elf.phs : elf.phs[i] = "GnuRelro"

BindNow(sect) == SectHasFlags1Bit(sect, FLAG_1_NOW)
PieBit(sect) == SectHasFlags1Bit(sect, FLAG_1_PIE)

AnyBindNow(elf) == \E i \in DOMAIN elf.sects : BindNow(elf.sects[i])
AnyPieBit(elf) == \E i \in DOMAIN elf.sects : PieBit(elf.sects[i])
AnyTextRelSect(elf) == \E i \in DOMAIN elf.sects : SectHasTextRel(elf.sects[i])
AnyCanarySect(elf) == \E i \in DOMAIN elf.sects : SectHasCanary(elf.sects[i])

ExpectedRelro(elf) ==
    IF AnyBindNow(elf) THEN "Full"
    ELSE IF MarkerPresent(elf) THEN "Partial" ELSE "None"

\* the line of the report of the finished check_hardening with this label
Reported(label) ==
    CHOOSE l \in {out[k] : k \in (Len(out) - 5)..Len(out)} : l.label = label

\* C1: the RELRO level check_hardening reports is Full if some dynamic section
\* has a flags-1 entry with the bind-now bit, else Partial if some program
\* header is the RELRO marker, else None.
C1_RelroLevel ==
    pc = "done" =>
        /\ relro = ExpectedRelro(elf_file)
        /\ Reported("RELRO").val = ExpectedRelro(elf_file)

\* C1's case: bind-now in an earlier dynamic section, a later one without it
C1_Witness ==
    /\ pc = "done"
    /\ Reported("RELRO").val = "Full"
    /\ \E i, j \in DOMAIN elf_file.sects :
          /\ i < j
          /\ BindNow(elf_file.sects[i])
          /\ IsDynamic(elf_file.sects[j]) /\ ~BindNow(elf_file.sects[j])

\* C2: the PIE flag reported is the OR over all dynamic sections of "has a
\* flags-1 entry with the PIE bit".
C2_PieIsOr ==
    pc = "done" =>
        /\ pie = AnyPieBit(elf_file)
        /\ Reported("PIE").val = FmtBool(AnyPieBit(elf_file))

\* C3: the PIC flag reported is false exactly when some dynamic section has
\* a text-relocation entry.
C3_PicIsNoTextRel ==
    pc = "done" =>
        /\ pic = ~AnyTextRelSect(elf_file)
        /\ Reported("PIC").val = FmtBool(~AnyTextRelSect(elf_file))

\* C4: the STACK_CANARY flag reported is true exactly when some dynamic symbol
\* table has an entry named __stack_chk_fail.
C4_CanaryIsOr ==
    pc = "done" =>
        /\ stack_canary = AnyCanarySect(elf_file)
        /\ Reported("STACK_CANARY").val = FmtBool(AnyCanarySect(elf_file))

\* the permutations of 1..n, and sects in the order p
Perms(n) == {p \in [1..n -> 1..n] : \A i, j \in 1..n : p[i] = p[j] => i = j}
Permuted(sects, p) == [i \in 1..Len(sects) |-> sects[p[i]]]

\* C5: the four flags computed do not depend on the order of the sections:
\* every permutation of the section table gives the same four values.
C5_OrderIndependent ==
    pc = "done" =>
        \A p \in Perms(Len(elf_file.sects)) :
            FoldSections(InitLocals(elf_file), Permuted(elf_file.sects, p)) = CurLocals

RelroRank(r) == CASE r = "None" -> 0 [] r = "Partial" -> 1 [] r = "Full" -> 2

\* C6: during the loop the RELRO value never decreases in None < Partial <
\* Full, and with a RELRO marker program header it is never None.
C6_RelroMonotonic ==
    /\ [](MarkerPresent(elf_file) => relro # "None")
    /\ [][RelroRank(relro') >= RelroRank(relro)]_vars

\* C6's case: the loop has passed a dynamic section with bind-now and then a
\* dynamic section without it, and the value is Full
C6_Witness ==
    /\ pc = "loop"
    /\ relro = "Full"
    /\ \E i, j \in 1..(idx - 1) :
          /\ i < j
          /\ BindNow(elf_file.sects[i])
          /\ IsDynamic(elf_file.sects[j]) /\ ~BindNow(elf_file.sects[j])

\* ---- C7: the names fortify_fns is to return, entry by entry
\* ends with _chk: the name is some prefix followed by _chk
HasChkSuffix(n) == \E k \in 0..Len(n) : n = SubSeq(n, 1, k) \o CHK
\* contains ___: three underscores in a row
HasTriple(n) ==
    \E k \in 1..(Len(n) - 2) : n[k] = "_" /\ n[k + 1] = "_" /\ n[k + 2] = "_"
\* the name cut at the first @@
IsCut(n, c) ==
    \/ c = n /\ ~\E k \in 1..(Len(n) - 1) : n[k] = "@" /\ n[k + 1] = "@"
    \/ \E k \in 1..(Len(n) - 1) :
          /\ n[k] = "@" /\ n[k + 1] = "@"
          /\ \A h \in 1..(k - 1) : ~(n[h] = "@" /\ n[h + 1] = "@")
          /\ c = SubSeq(n, 1, k - 1)
\* what entry j of section i contributes, if it has a name
Contribution(elf, i, j) ==
    LET n == elf.sects[i].ents[j].name
    IN  IF IsDynSym(elf.sects[i]) THEN n
        ELSE CHOOSE c \in {SubSeq(n, 1, k) : k \in 0..Len(n)} : IsCut(n, c)
\* the entries that qualify, as <<section, entry>>
Qualifying(elf) ==
    {q \in UNION {{<<i, j>> : j \in DOMAIN elf.sects[i].ents} : i \in DOMAIN elf.sects} :
        /\ IsDynSym(elf.sects[q[1]]) \/ IsSymTab(elf.sects[q[1]])
        /\ elf.sects[q[1]].ents[q[2]].ok
        /\ HasChkSuffix(Contribution(elf, q[1], q[2]))
        /\ ~HasTriple(Contribution(elf, q[1], q[2]))}
Before(q, r) == q[1] < r[1] \/ (q[1] = r[1] /\ q[2] < r[2])
Position(elf, q) == 1 + Cardinality({r \in Qualifying(elf) : Before(r, q)})

\* C7: fortify_fns returns, in section order then entry order and without
\* deduplication, the collected names that end with _chk and do not contain
\* ___ (a dynamic symbol gives its name, a static symbol its name cut at the
\* first @@, other sections nothing); CHECKED FUNCTIONS is its length.
C7_FortifyFns ==
    pc = "done" =>
        /\ Len(checked_fns) = Cardinality(Qualifying(elf_file))
        /\ \A q \in Qualifying(elf_file) :
              checked_fns[Position(elf_file, q)] = Contribution(elf_file, q[1], q[2])
        /\ Reported("CHECKED FUNCTIONS").val = ToString(Cardinality(Qualifying(elf_file)))

\* C7's case: one name in a dynamic and in a static symbol table, counted
\* twice, the static one cut at @@
C7_Witness ==
    /\ pc = "done"
    /\ Reported("CHECKED FUNCTIONS").val = "2"
    /\ Len(checked_fns) = 2
    /\ checked_fns[1] = checked_fns[2]
    /\ \E i, j \in DOMAIN elf_file.sects :
          /\ IsDynSym(elf_file.sects[i]) /\ IsSymTab(elf_file.sects[j])
          /\ elf_file.sects[i].ents # <<>> /\ elf_file.sects[j].ents # <<>>
          /\ elf_file.sects[i].ents[1].name # elf_file.sects[j].ents[1].name

\* ---- C8 to C10: main
IsFile(e) == e.ft = "file"
\* the regular files the walk of one argument discovers, in order
Regular(entries) == SelectSeq(entries, IsFile)
\* the files that have a Result, as <<argument, position among its files>>
Analysed == UNION {{<<a, k>> : k \in DOMAIN results[a]} : a \in DOMAIN results}
FileOf(q) == Regular(args[q[1]])[q[2]]
ResultOf(q) == results[q[1]][q[2]]
Parsed(f) == f.open /\ f.read /\ f.parse
WrongClass(f) == Parsed(f) /\ f.class # "SixtyFour"
WrongMachine(f) == Parsed(f) /\ f.class = "SixtyFour" /\ f.machine # "X86_64"

\* C8: a file is Reported only if it was read, parsed, is 64-bit and x86-64,
\* and then always; a parsed file of another class ends Failed(UnsupportedClass),
\* a 64-bit file of another machine Failed(UnsupportedMachine), and these are
\* two different error values.
C8_StateMachine ==
    \A q \in Analysed :
        /\ ResultOf(q) = "Ok" <=>
              (Parsed(FileOf(q)) /\ FileOf(q).class = "SixtyFour"
                                 /\ FileOf(q).machine = "X86_64")
        /\ \A r \in Analysed :
              (WrongClass(FileOf(q)) /\ WrongMachine(FileOf(r))) =>
                  /\ ResultOf(q) # "Ok"
                  /\ ResultOf(r) # "Ok"
                  /\ ResultOf(q) # ResultOf(r)

\* C9: a file's failure becomes an error Result, no panic ends the run, every
\* discovered file gets analysed, and the exit status is 0 unless there was
\* no path argument.
C9_Isolation ==
    /\ status # <<EXIT_PANIC>>
    /\ mpc = "exited" =>
          /\ status = (IF Len(args) < 1 THEN <<EXIT_USAGE>> ELSE <<EXIT_OK>>)
          /\ Len(args) >= 1 =>
                /\ Len(results) = Len(args)
                /\ \A a \in DOMAIN args : Len(results[a]) = Len(Regular(args[a]))

ReportLabels ==
    <<"RELRO", "STACK_CANARY", "PIE", "PIC", "FORTIFY", "CHECKED FUNCTIONS">>

\* C10: every printed file path follows a blank line and is followed by the
\* six report lines in order or by an error line, never by neither (looked at
\* on the runs that no panic has cut short).
C10_Output ==
    \A k \in DOMAIN out :
        (out[k].label = "path" /\ status # <<EXIT_PANIC>>) =>
            /\ k > 1
            /\ out[k - 1] = Line("", "")
            /\ \/ k + 1 <= Len(out) /\ out[k + 1].label = "error"
               \/ /\ k + 6 <= Len(out)
                  /\ [i \in 1..6 |-> out[k + i].label] = ReportLabels

====
